---- MODULE Spec2Model ----
(***************************************************************************)
(* Booking conflict detection and reservation lifecycle of the car-rental  *)
(* backend: POST /api/bookings, POST /api/bookings/guest,                  *)
(* PUT /api/admin/bookings/:id/status, GET /api/cars/:id/availability and  *)
(* the Booking schema's pre-validate hook.                                 *)
(*                                                                         *)
(* Dates are integers counted in half days, so that a range need not be a  *)
(* whole number of days and Math.ceil is not the identity.                 *)
(***************************************************************************)
EXTENDS Integers, Sequences, FiniteSets, TLC

\* ---------------------------------------------------------------- bounds
MaxBookings == 2
MaxDate == 4
MaxNow == 2
MaxProcs == 2

\* 1000 * 3600 * 24 milliseconds, in the model's unit of half a day
DayMs == 2

Dates == 1..MaxDate
\* request times: before every date of Dates, or MaxNow
Nows == {0, MaxNow}
Procs == 1..MaxProcs

CarIds == {"c1", "c2"}
MissingCarId == "c9"
RequestCarIds == CarIds \cup {MissingCarId}

BookingStatuses == {"pending", "confirmed", "active", "completed", "cancelled"}
PaymentStatuses == {"pending", "paid", "failed", "refunded"}

\* the authenticated account of req.user.id (users[1])
AuthUserId == 1

GuestInfos ==
  { [name |-> "n1", email |-> "e1", phone |-> "p1"],
    [name |-> "n2", email |-> "e1", phone |-> "p2"],
    [name |-> "n1", email |-> "e2", phone |-> "p1"] }

NoGuest == [name |-> "", email |-> "", phone |-> ""]

\* cars, bookings, users: the three collections of the database;
\* frames: the request handlers in flight, one per connection
VARIABLES cars, bookings, users, frames

vars == <<cars, bookings, users, frames>>

\* ------------------------------------------------------------ the stores

\* Car.findById: the empty sequence is null
CarFindById(cs, carId) ==
  IF carId \in DOMAIN cs THEN <<cs[carId]>> ELSE <<>>

\* Math.floor in place of Math.ceil
MathFloorDiv(x, d) == x \div d

\* Math.ceil(x / d) for d > 0
MathCeilDiv(x, d) == (x + d - 1) \div d

\* the query with 'active' left out of $in
ConflictingBookingsAuthConfirmedOnly(bs, carId, start, end) ==
  SelectSeq(bs, LAMBDA b:
    /\ b.car = carId
    /\ b.status \in {"confirmed"}
    /\ b.startDate <= end
    /\ b.endDate >= start)

\* the query with the guest route's $in
ConflictingBookingsAuthWithPending(bs, carId, start, end) ==
  SelectSeq(bs, LAMBDA b:
    /\ b.car = carId
    /\ b.status \in {"confirmed", "active", "pending"}
    /\ b.startDate <= end
    /\ b.endDate >= start)

\* the overlap query of POST /api/bookings
ConflictingBookingsAuth(bs, carId, start, end) ==
  SelectSeq(bs, LAMBDA b:
    /\ b.car = carId
    /\ b.status \in {"confirmed", "active"}
    /\ b.startDate <= end
    /\ b.endDate >= start)

\* the query with the authenticated route's $in
ConflictingBookingsGuestNoPending(bs, carId, start, end) ==
  SelectSeq(bs, LAMBDA b:
    /\ b.car = carId
    /\ b.status \in {"confirmed", "active"}
    /\ b.startDate <= end
    /\ b.endDate >= start)

\* the query without its status filter
ConflictingBookingsGuestAnyStatus(bs, carId, start, end) ==
  SelectSeq(bs, LAMBDA b:
    /\ b.car = carId
    /\ b.startDate <= end
    /\ b.endDate >= start)

\* the overlap query of POST /api/bookings/guest
ConflictingBookingsGuest(bs, carId, start, end) ==
  SelectSeq(bs, LAMBDA b:
    /\ b.car = carId
    /\ b.status \in {"confirmed", "active", "pending"}
    /\ b.startDate <= end
    /\ b.endDate >= start)

\* the query with the guest route's $in
ConflictingBookingsAvailabilityWithPending(bs, carId, start, end) ==
  SelectSeq(bs, LAMBDA b:
    /\ b.car = carId
    /\ b.status \in {"confirmed", "active", "pending"}
    /\ b.startDate <= end
    /\ b.endDate >= start)

\* the query with $lt and $gt in place of $lte and $gte
ConflictingBookingsAvailabilityStrict(bs, carId, start, end) ==
  SelectSeq(bs, LAMBDA b:
    /\ b.car = carId
    /\ b.status \in {"confirmed", "active"}
    /\ b.startDate < end
    /\ b.endDate > start)

\* the overlap query of GET /api/cars/:id/availability
ConflictingBookingsAvailability(bs, carId, start, end) ==
  SelectSeq(bs, LAMBDA b:
    /\ b.car = carId
    /\ b.status \in {"confirmed", "active"}
    /\ b.startDate <= end
    /\ b.endDate >= start)

\* the hook cutting both dates down to whole days after its comparison
PreValidateTruncatesDays(doc) ==
  [ doc |-> [doc EXCEPT !.totalDays =
               MathCeilDiv(doc.endDate - doc.startDate, DayMs),
               !.startDate = (doc.startDate \div DayMs) * DayMs,
               !.endDate = (doc.endDate \div DayMs) * DayMs],
    calls |-> IF doc.startDate >= doc.endDate
              THEN <<"End date must be after start date", "">>
              ELSE <<"">> ]

\* bookingSchema.pre('validate'): the document after the hook and the calls
\* it made to next, in order. There is no return after next(error).
PreValidate(doc) ==
  [ doc |-> [doc EXCEPT !.totalDays =
               MathCeilDiv(doc.endDate - doc.startDate, DayMs)],
    calls |-> IF doc.startDate >= doc.endDate
              THEN <<"End date must be after start date", "">>
              ELSE <<"">> ]

\* the schema's validators on the fields the routes set
SchemaValid(doc) ==
  /\ doc.totalAmount >= 0
  /\ doc.status \in BookingStatuses
  /\ doc.paymentStatus \in PaymentStatuses

\* the schema with default: 'confirmed' for status
WithDefaultsConfirmed(fields) ==
  [ id |-> 0,
    user |-> fields.user,
    car |-> fields.car,
    startDate |-> fields.startDate,
    endDate |-> fields.endDate,
    totalDays |-> fields.totalDays,
    totalAmount |-> fields.totalAmount,
    status |-> IF "status" \in DOMAIN fields THEN fields.status ELSE "confirmed",
    paymentStatus |-> "pending",
    isGuestBooking |-> IF "isGuestBooking" \in DOMAIN fields
                       THEN fields.isGuestBooking ELSE FALSE,
    guestInfo |-> IF "guestInfo" \in DOMAIN fields
                  THEN fields.guestInfo ELSE NoGuest ]

\* bookingSchema defaults: status, paymentStatus, isGuestBooking
WithDefaults(fields) ==
  [ id |-> 0,
    user |-> fields.user,
    car |-> fields.car,
    startDate |-> fields.startDate,
    endDate |-> fields.endDate,
    totalDays |-> fields.totalDays,
    totalAmount |-> fields.totalAmount,
    status |-> IF "status" \in DOMAIN fields THEN fields.status ELSE "pending",
    paymentStatus |-> "pending",
    isGuestBooking |-> IF "isGuestBooking" \in DOMAIN fields
                       THEN fields.isGuestBooking ELSE FALSE,
    guestInfo |-> IF "guestInfo" \in DOMAIN fields
                  THEN fields.guestInfo ELSE NoGuest ]

\* Booking.create: defaults, the pre-validate hook (the first call of next
\* decides), the validators, the insert. ok = FALSE is a rejected promise.
BookingCreate(bs, fields) ==
  LET hooked == PreValidate(WithDefaults(fields))
      doc == [hooked.doc EXCEPT !.id = Len(bs) + 1]
  IN IF hooked.calls[1] = "" /\ SchemaValid(doc)
     THEN [ok |-> TRUE, bookings |-> Append(bs, doc), doc |-> <<doc>>]
     ELSE [ok |-> FALSE, bookings |-> bs, doc |-> <<>>]

\* findOne({ isGuest: true }): the email left out of the filter
UserFindOneAnyGuest(us, email) ==
  LET hits == {i \in 1..Len(us) : us[i].isGuest}
  IN IF hits = {} THEN 0 ELSE CHOOSE i \in hits : \A j \in hits : i <= j

\* User.findOne({ email, isGuest: true }): the index of the first match, 0 for null
UserFindOneGuest(us, email) ==
  LET hits == {i \in 1..Len(us) : us[i].email = email /\ us[i].isGuest}
  IN IF hits = {} THEN 0 ELSE CHOOSE i \in hits : \A j \in hits : i <= j

\* User.create of the guest route
UserCreateGuest(us, g) ==
  Append(us, [name |-> g.name, email |-> g.email, phone |-> g.phone,
              role |-> "guest", isGuest |-> TRUE])

\* guestUser.name = ...; guestUser.phone = ...; guestUser.save()
UserSaveGuest(us, i, g) ==
  [us EXCEPT ![i].name = g.name, ![i].phone = g.phone]

\* ------------------------------------------------- requests and responses

NoRes == [status |-> 0, message |-> ""]

Json(status, message) == [status |-> status, message |-> message]

NoReq == [car |-> "", startDate |-> 0, endDate |-> 0, now |-> 0,
          guestInfo |-> NoGuest]

\* what one request handler holds between two awaits
IdleFrame ==
  [ pc |-> "idle", kind |-> "", req |-> NoReq, car |-> <<>>,
    conflictingBookings |-> <<>>, totalDays |-> 0, totalAmount |-> 0,
    guestUser |-> 0, booking |-> <<>>, res |-> NoRes ]

NewFrame(kind, req) == [IdleFrame EXCEPT !.pc = "start", !.kind = kind, !.req = req]

Done(f, r) == [f EXCEPT !.pc = "done", !.res = r]

\* the catch block of both routes: a rejected store call
ServerError(f) == Done(f, Json(500, "Server error"))

Db(cs, bs, us) == [cars |-> cs, bookings |-> bs, users |-> us]

Out(f, db) == [f |-> f, db |-> db]

\* ------------------------------------------------------ POST /api/bookings
\* Each step is the code between two awaits, together with the store call
\* that ends it; ok = FALSE makes that store call reject.

\* start < now in place of start <= now
AuthValidateDatesLate(f, db, ok) ==
  IF f.req.startDate < f.req.now
  THEN Out(Done(f, Json(400, "Start date must be in the future")), db)
  ELSE IF f.req.endDate <= f.req.startDate
  THEN Out(Done(f, Json(400, "End date must be after start date")), db)
  ELSE IF ~ok THEN Out(ServerError(f), db)
  ELSE Out([f EXCEPT !.pc = "haveCar",
                     !.car = CarFindById(db.cars, f.req.car)], db)

AuthValidateDates(f, db, ok) ==
  IF f.req.startDate <= f.req.now
  THEN Out(Done(f, Json(400, "Start date must be in the future")), db)
  ELSE IF f.req.endDate <= f.req.startDate
  THEN Out(Done(f, Json(400, "End date must be after start date")), db)
  ELSE IF ~ok THEN Out(ServerError(f), db)
  ELSE Out([f EXCEPT !.pc = "haveCar",
                     !.car = CarFindById(db.cars, f.req.car)], db)

AuthCheckCar(f, db, ok) ==
  IF f.car = <<>>
  THEN Out(Done(f, Json(404, "Car not found")), db)
  ELSE IF ~f.car[1].isAvailable
  THEN Out(Done(f, Json(400, "Car is not available")), db)
  ELSE IF ~ok THEN Out(ServerError(f), db)
  ELSE Out([f EXCEPT !.pc = "haveConflicts",
                     !.conflictingBookings =
                        ConflictingBookingsAuth(db.bookings, f.req.car,
                                                f.req.startDate, f.req.endDate)],
           db)

AuthCreateBooking(f, db, ok) ==
  IF Len(f.conflictingBookings) > 0
  THEN Out(Done(f, Json(400, "Car is not available for the selected dates")), db)
  ELSE
    LET totalDays == MathCeilDiv(f.req.endDate - f.req.startDate, DayMs)
        totalAmount == totalDays * f.car[1].pricePerDay
        made == BookingCreate(db.bookings,
                  [ user |-> AuthUserId, car |-> f.req.car,
                    startDate |-> f.req.startDate, endDate |-> f.req.endDate,
                    totalDays |-> totalDays, totalAmount |-> totalAmount ])
    IN IF ~ok \/ ~made.ok THEN Out(ServerError(f), db)
       ELSE Out([f EXCEPT !.pc = "created", !.totalDays = totalDays,
                          !.totalAmount = totalAmount, !.booking = made.doc],
                [db EXCEPT !.bookings = made.bookings])

AuthRespond(f, db, ok) ==
  IF ~ok THEN Out(ServerError(f), db)
  ELSE Out(Done(f, [status |-> 201, message |-> "Booking created successfully",
                    data |-> f.booking[1]]), db)

AuthStep(f, db, ok) ==
  CASE f.pc = "start" -> AuthValidateDates(f, db, ok)
    [] f.pc = "haveCar" -> AuthCheckCar(f, db, ok)
    [] f.pc = "haveConflicts" -> AuthCreateBooking(f, db, ok)
    [] f.pc = "created" -> AuthRespond(f, db, ok)

\* ------------------------------------------------ POST /api/bookings/guest

\* the route looking the car up before it validates the dates
GuestValidateDatesAfterCar(f, db, ok) ==
  IF ~ok THEN Out(ServerError(f), db)
  ELSE IF CarFindById(db.cars, f.req.car) = <<>>
  THEN Out(Done(f, Json(404, "Car not found")), db)
  ELSE IF f.req.startDate <= f.req.now
  THEN Out(Done(f, Json(400, "Start date must be in the future")), db)
  ELSE IF f.req.endDate <= f.req.startDate
  THEN Out(Done(f, Json(400, "End date must be after start date")), db)
  ELSE Out([f EXCEPT !.pc = "haveCar",
                     !.car = CarFindById(db.cars, f.req.car)], db)

GuestValidateDates(f, db, ok) ==
  IF f.req.startDate <= f.req.now
  THEN Out(Done(f, Json(400, "Start date must be in the future")), db)
  ELSE IF f.req.endDate <= f.req.startDate
  THEN Out(Done(f, Json(400, "End date must be after start date")), db)
  ELSE IF ~ok THEN Out(ServerError(f), db)
  ELSE Out([f EXCEPT !.pc = "haveCar",
                     !.car = CarFindById(db.cars, f.req.car)], db)

\* the route without its isAvailable test
GuestCheckCarIgnoresFlag(f, db, ok) ==
  IF f.car = <<>>
  THEN Out(Done(f, Json(404, "Car not found")), db)
  ELSE IF ~ok THEN Out(ServerError(f), db)
  ELSE Out([f EXCEPT !.pc = "haveConflicts",
                     !.conflictingBookings =
                        ConflictingBookingsGuest(db.bookings, f.req.car,
                                                 f.req.startDate, f.req.endDate)],
           db)

GuestCheckCar(f, db, ok) ==
  IF f.car = <<>>
  THEN Out(Done(f, Json(404, "Car not found")), db)
  ELSE IF ~f.car[1].isAvailable
  THEN Out(Done(f, Json(400, "Car is not available")), db)
  ELSE IF ~ok THEN Out(ServerError(f), db)
  ELSE Out([f EXCEPT !.pc = "haveConflicts",
                     !.conflictingBookings =
                        ConflictingBookingsGuest(db.bookings, f.req.car,
                                                 f.req.startDate, f.req.endDate)],
           db)

GuestFindUser(f, db, ok) ==
  IF Len(f.conflictingBookings) > 0
  THEN Out(Done(f, Json(400, "Car is not available for the selected dates")), db)
  ELSE IF ~ok THEN Out(ServerError(f), db)
  ELSE
    LET totalDays == MathCeilDiv(f.req.endDate - f.req.startDate, DayMs)
    IN Out([f EXCEPT !.pc = "haveGuest", !.totalDays = totalDays,
                     !.totalAmount = totalDays * f.car[1].pricePerDay,
                     !.guestUser = UserFindOneGuest(db.users, f.req.guestInfo.email)],
           db)

GuestUpsertUser(f, db, ok) ==
  IF ~ok THEN Out(ServerError(f), db)
  ELSE IF f.guestUser = 0
  THEN Out([f EXCEPT !.pc = "guestReady", !.guestUser = Len(db.users) + 1],
           [db EXCEPT !.users = UserCreateGuest(db.users, f.req.guestInfo)])
  ELSE Out([f EXCEPT !.pc = "guestReady"],
           [db EXCEPT !.users = UserSaveGuest(db.users, f.guestUser, f.req.guestInfo)])

GuestCreateBooking(f, db, ok) ==
  LET made == BookingCreate(db.bookings,
                [ user |-> f.guestUser, car |-> f.req.car,
                  startDate |-> f.req.startDate, endDate |-> f.req.endDate,
                  totalDays |-> f.totalDays, totalAmount |-> f.totalAmount,
                  status |-> "pending", isGuestBooking |-> TRUE,
                  guestInfo |-> f.req.guestInfo ])
  IN IF ~ok \/ ~made.ok THEN Out(ServerError(f), db)
     ELSE Out([f EXCEPT !.pc = "created", !.booking = made.doc],
              [db EXCEPT !.bookings = made.bookings])

GuestRespond(f, db, ok) ==
  IF ~ok THEN Out(ServerError(f), db)
  ELSE Out(Done(f, [status |-> 201,
                    message |-> "Guest booking created successfully",
                    data |-> f.booking[1]]), db)

GuestStep(f, db, ok) ==
  CASE f.pc = "start" -> GuestValidateDates(f, db, ok)
    [] f.pc = "haveCar" -> GuestCheckCar(f, db, ok)
    [] f.pc = "haveConflicts" -> GuestFindUser(f, db, ok)
    [] f.pc = "haveGuest" -> GuestUpsertUser(f, db, ok)
    [] f.pc = "guestReady" -> GuestCreateBooking(f, db, ok)
    [] f.pc = "created" -> GuestRespond(f, db, ok)

HandlerStep(f, db, ok) ==
  IF f.kind = "guest" THEN GuestStep(f, db, ok) ELSE AuthStep(f, db, ok)

\* a handler that no other request interleaves with: all its steps in a row
RECURSIVE RunHandler(_, _)
RunHandler(f, db) ==
  IF f.pc = "done" THEN Out(f, db)
  ELSE LET o == HandlerStep(f, db, TRUE) IN RunHandler(o.f, o.db)

\* ------------------------------------ PUT /api/admin/bookings/:id/status

\* the update refused once a reservation is cancelled or completed
BookingFindByIdAndUpdateKeepsTerminal(bs, id, status) ==
  IF id \in 1..Len(bs)
  THEN [found |-> TRUE,
        bookings |-> IF bs[id].status \in {"cancelled", "completed"} THEN bs
                     ELSE [bs EXCEPT ![id].status = status]]
  ELSE [found |-> FALSE, bookings |-> bs]

\* the update { status, paymentStatus: 'refunded' } on a cancellation
BookingFindByIdAndUpdateRefunds(bs, id, status) ==
  IF id \in 1..Len(bs)
  THEN [found |-> TRUE,
        bookings |-> IF status = "cancelled"
                     THEN [bs EXCEPT ![id].status = status,
                                     ![id].paymentStatus = "refunded"]
                     ELSE [bs EXCEPT ![id].status = status]]
  ELSE [found |-> FALSE, bookings |-> bs]

\* Booking.findByIdAndUpdate(id, { status }, { new: true }); no validators run
BookingFindByIdAndUpdate(bs, id, status) ==
  IF id \in 1..Len(bs)
  THEN [found |-> TRUE, bookings |-> [bs EXCEPT ![id].status = status]]
  ELSE [found |-> FALSE, bookings |-> bs]

\* the route without its isIn validation of the status
UpdateStatusHandlerNoValidation(db, id, status) ==
  LET u == BookingFindByIdAndUpdate(db.bookings, id, status)
  IN IF ~u.found
     THEN [res |-> Json(404, "Booking not found"), db |-> db]
     ELSE [res |-> [status |-> 200,
                    message |-> "Booking status updated successfully",
                    data |-> u.bookings[id]],
           db |-> [db EXCEPT !.bookings = u.bookings]]

UpdateStatusHandler(db, id, status) ==
  IF status \notin BookingStatuses
  THEN [res |-> Json(400, "Validation failed"), db |-> db]
  ELSE LET u == BookingFindByIdAndUpdate(db.bookings, id, status)
       IN IF ~u.found
          THEN [res |-> Json(404, "Booking not found"), db |-> db]
          ELSE [res |-> [status |-> 200,
                         message |-> "Booking status updated successfully",
                         data |-> u.bookings[id]],
                db |-> [db EXCEPT !.bookings = u.bookings]]

\* ----------------------------------------- GET /api/cars/:id/availability

\* isAvailable computed from the conflicts alone
AvailabilityHandlerIgnoresFlag(db, carId, startDate, endDate) ==
  LET car == CarFindById(db.cars, carId)
  IN IF car = <<>> THEN Json(404, "Car not found")
     ELSE LET conflictingBookings ==
                ConflictingBookingsAvailability(db.bookings, carId, startDate, endDate)
          IN [ status |-> 200, message |-> "",
               available |-> (Len(conflictingBookings) = 0),
               conflictingDates |->
                 [i \in 1..Len(conflictingBookings) |->
                    [startDate |-> conflictingBookings[i].startDate,
                     endDate |-> conflictingBookings[i].endDate]] ]

AvailabilityHandler(db, carId, startDate, endDate) ==
  LET car == CarFindById(db.cars, carId)
  IN IF car = <<>> THEN Json(404, "Car not found")
     ELSE LET conflictingBookings ==
                ConflictingBookingsAvailability(db.bookings, carId, startDate, endDate)
          IN [ status |-> 200, message |-> "",
               available |-> (Len(conflictingBookings) = 0 /\ car[1].isAvailable),
               conflictingDates |->
                 [i \in 1..Len(conflictingBookings) |->
                    [startDate |-> conflictingBookings[i].startDate,
                     endDate |-> conflictingBookings[i].endDate]] ]

\* the route that saves the flag it has computed on the car
AvailabilityRouteSavesFlag(db, carId, startDate, endDate) ==
  LET res == AvailabilityHandler(db, carId, startDate, endDate)
  IN [ res |-> res,
       db |-> IF res.status = 200
              THEN [db EXCEPT !.cars[carId].isAvailable = res.available]
              ELSE db ]

\* the answer of the route and the database it leaves: Car.findById and
\* Booking.find are its only store calls
AvailabilityRoute(db, carId, startDate, endDate) ==
  [ res |-> AvailabilityHandler(db, carId, startDate, endDate), db |-> db ]

\* ------------------------------------------------------- the state machine

DateRanges == Dates \X Dates

\* the two routes that create a reservation
Kinds == {"auth", "guest"}

\* the guest of the requests of Spec; GuestSpec and ConcSpec draw from GuestInfos
SpecGuestInfos == { [name |-> "n1", email |-> "e1", phone |-> "p1"] }

Requests(carIds, ranges, nows, guests) ==
  { [car |-> c, startDate |-> r[1], endDate |-> r[2], now |-> n, guestInfo |-> g] :
      c \in carIds, r \in ranges, n \in nows, g \in guests }

CreateRequests == Requests(RequestCarIds, DateRanges, Nows, {NoGuest})

GuestRequests == Requests(RequestCarIds, DateRanges, Nows, SpecGuestInfos)

StatusInputs == BookingStatuses \cup {"archived"}

BookingIdInputs == 1..(MaxBookings + 1)

\* the car an administrator switches on and off
ToggledCarIds == {"c1"}

Init ==
  /\ cars = [c \in CarIds |->
               [isAvailable |-> TRUE, pricePerDay |-> IF c = "c1" THEN 50 ELSE 30]]
  /\ bookings = <<>>
  /\ users = << [name |-> "r", email |-> "r1", phone |-> "p0",
                 role |-> "user", isGuest |-> FALSE] >>
  /\ frames = [p \in Procs |-> IdleFrame]

\* the database the handlers read and write
CurrentDb == Db(cars, bookings, users)

\* the answer and the database after a request served with no other in flight
Serve(kind, req) == RunHandler(NewFrame(kind, req), CurrentDb)

\* POST /api/bookings, served with no other request in flight
CreateBooking(req) ==
  \E o \in {Serve("auth", req)} :
     /\ Len(o.db.bookings) <= MaxBookings
     /\ bookings' = o.db.bookings
     /\ users' = o.db.users
     /\ UNCHANGED <<cars, frames>>

\* POST /api/bookings/guest, served with no other request in flight
CreateGuestBooking(req) ==
  \E o \in {Serve("guest", req)} :
     /\ Len(o.db.bookings) <= MaxBookings
     /\ bookings' = o.db.bookings
     /\ users' = o.db.users
     /\ UNCHANGED <<cars, frames>>

\* PUT /api/admin/bookings/:id/status
UpdateBookingStatus(id, status) ==
  LET o == UpdateStatusHandler(CurrentDb, id, status)
  IN /\ bookings' = o.db.bookings
     /\ UNCHANGED <<cars, users, frames>>

\* GET /api/cars/:id/availability
CheckAvailability(carId, startDate, endDate) ==
  \E o \in {AvailabilityRoute(CurrentDb, carId, startDate, endDate)} :
     /\ o.res.status \in {200, 404}
     /\ cars' = o.db.cars
     /\ bookings' = o.db.bookings
     /\ users' = o.db.users
     /\ UNCHANGED frames

\* an administrator toggles a vehicle's availability flag
SetCarAvailability(carId, flag) ==
  /\ cars' = [cars EXCEPT ![carId].isAvailable = flag]
  /\ UNCHANGED <<bookings, users, frames>>

Next ==
  \/ \E req \in CreateRequests : CreateBooking(req)
  \/ \E req \in GuestRequests : CreateGuestBooking(req)
  \/ \E id \in BookingIdInputs, status \in StatusInputs : UpdateBookingStatus(id, status)
  \/ \E carId \in RequestCarIds, r \in DateRanges : CheckAvailability(carId, r[1], r[2])
  \/ \E carId \in ToggledCarIds, flag \in BOOLEAN : SetCarAvailability(carId, flag)

Spec == Init /\ [][Next]_vars

\* ------------------------------------- guests booking one after the other

GuestSpecRequests == Requests(CarIds, DateRanges, {0}, GuestInfos)

GuestNext ==
  \/ \E req \in GuestSpecRequests : CreateGuestBooking(req)
  \/ \E id \in BookingIdInputs : UpdateBookingStatus(id, "cancelled")

GuestSpec == Init /\ [][GuestNext]_vars

\* ------------------------------------------------- requests served at once
\* Every connection serves one request; the handlers advance one store call
\* at a time, in any order.

\* ranges of one time unit: two of them are equal, touch or lie apart
ConcRanges == { r \in DateRanges : r[2] = r[1] + 1 }

ConcRequests(kind) ==
  Requests(CarIds, ConcRanges, {0}, IF kind = "guest" THEN GuestInfos ELSE {NoGuest})

\* a request arrives on connection p
Begin(p, kind, req) ==
  /\ frames[p].pc = "idle"
  /\ frames' = [frames EXCEPT ![p] = NewFrame(kind, req)]
  /\ UNCHANGED <<cars, bookings, users>>

\* the handler on connection p runs to its next store call
Advance(p) ==
  /\ frames[p].pc \notin {"idle", "done"}
  /\ \E o \in {HandlerStep(frames[p], CurrentDb, TRUE)} :
       /\ Len(o.db.bookings) <= MaxBookings
       /\ frames' = [frames EXCEPT ![p] = o.f]
       /\ bookings' = o.db.bookings
       /\ users' = o.db.users
  /\ UNCHANGED cars

ConcNext ==
  \/ \E p \in Procs, kind \in Kinds : \E req \in ConcRequests(kind) : Begin(p, kind, req)
  \/ \E p \in Procs : Advance(p)

ConcSpec == Init /\ [][ConcNext]_vars

\* ------------------------------------------- vehicles whose price changes

\* the daily prices the catalog gives the toggled vehicle over time
Prices == {50, 60}

\* the catalog changes a vehicle's daily price
SetCarPrice(carId, price) ==
  /\ cars' = [cars EXCEPT ![carId].pricePerDay = price]
  /\ UNCHANGED <<bookings, users, frames>>

PriceRequests(kind) ==
  Requests(CarIds, ConcRanges, {0}, IF kind = "guest" THEN SpecGuestInfos ELSE {NoGuest})

PriceNext ==
  \/ \E req \in PriceRequests("auth") : CreateBooking(req)
  \/ \E req \in PriceRequests("guest") : CreateGuestBooking(req)
  \/ \E id \in BookingIdInputs, status \in StatusInputs : UpdateBookingStatus(id, status)
  \/ \E carId \in ToggledCarIds, price \in Prices : SetCarPrice(carId, price)

PriceSpec == Init /\ [][PriceNext]_vars

\* ------------------------------------------- requests with a failing store
\* A request is served with no other in flight; one of its store calls may
\* reject, which takes the handler to its catch block.

\* the store call that rejects: the n-th awaited call of the handler (the
\* guest route awaits six), 0 for none
FaultAt == 0..6

\* the handler run to its end, its n-th store call rejecting
RECURSIVE RunHandlerFailing(_, _, _)
RunHandlerFailing(f, db, n) ==
  IF f.pc = "done" THEN Out(f, db)
  ELSE LET o == HandlerStep(f, db, n # 1)
       IN RunHandlerFailing(o.f, o.db, IF n = 0 THEN 0 ELSE n - 1)

\* connection 1 keeps the frame of the request served last
ServeFailing(kind, req, n) ==
  \E o \in {RunHandlerFailing(NewFrame(kind, req), CurrentDb, n)} :
     /\ Len(o.db.bookings) <= MaxBookings
     /\ bookings' = o.db.bookings
     /\ users' = o.db.users
     /\ frames' = [frames EXCEPT ![1] = o.f]
     /\ UNCHANGED cars

\* requests for one vehicle, the guests' with one email
FaultRequests(kind) ==
  Requests({"c1"}, ConcRanges, {0},
           IF kind = "guest" THEN { g \in GuestInfos : g.email = "e1" } ELSE {NoGuest})

FaultNext ==
  \E kind \in Kinds, n \in FaultAt :
    \E req \in FaultRequests(kind) : ServeFailing(kind, req, n)

FaultSpec == Init /\ [][FaultNext]_vars

\* --------------------------------------------- documents under validation
\* The pre-validate hook applied to documents of any dates, as
\* Booking.create or save of any caller runs it. A connection holds the
\* document it validates, then the document the hook left and the calls the
\* hook made to next.

\* documents with every pair of dates and a supplied totalDays
HookDocs ==
  { WithDefaults([ user |-> AuthUserId, car |-> "c1",
                   startDate |-> r[1], endDate |-> r[2],
                   totalDays |-> t, totalAmount |-> 0 ]) :
      r \in DateRanges, t \in {0, MaxDate} }

HookFrame(doc) == [pc |-> "validate", given |-> doc, doc |-> doc, calls |-> <<>>]

HookInit ==
  /\ cars = [c \in CarIds |->
               [isAvailable |-> TRUE, pricePerDay |-> IF c = "c1" THEN 50 ELSE 30]]
  /\ bookings = <<>>
  /\ users = << [name |-> "r", email |-> "r1", phone |-> "p0",
                 role |-> "user", isGuest |-> FALSE] >>
  /\ frames \in [Procs -> { HookFrame(doc) : doc \in HookDocs }]

\* the hook runs on the document of connection p
Validate(p) ==
  /\ frames[p].pc = "validate"
  /\ \E hooked \in {PreValidate(frames[p].doc)} :
       frames' = [frames EXCEPT ![p].pc = "validated",
                                ![p].doc = hooked.doc,
                                ![p].calls = hooked.calls]
  /\ UNCHANGED <<cars, bookings, users>>

HookNext == \E p \in Procs : Validate(p)

HookSpec == HookInit /\ [][HookNext]_vars

\* ------------------------------------------------ vocabulary of the claims

RequestsOf(kind) == IF kind = "guest" THEN GuestRequests ELSE CreateRequests

\* the same vehicle, dates and request time, asked as a request of `kind`
AsKind(kind, req, g) ==
  [req EXCEPT !.guestInfo = IF kind = "guest" THEN g ELSE NoGuest]

IsCreated(r) == r.status = 201

IsInvalidDateRange(r) ==
  /\ r.status = 400
  /\ r.message \in {"Start date must be in the future",
                    "End date must be after start date"}

IsNotFound(r) == r.status = 404

IsUnavailable(r) == r.status = 400 /\ r.message = "Car is not available"

IsConflict(r) ==
  r.status = 400 /\ r.message = "Car is not available for the selected dates"

ValidRange(req) == req.now < req.startDate /\ req.startDate < req.endDate

\* closed-interval overlap of [s1, e1] and [s2, e2]
Overlap(s1, e1, s2, e2) == s1 <= e2 /\ e1 >= s2

\* the reservations of a vehicle that overlap [s, e] and have a status of `statuses`
OverlappingIds(carId, s, e, statuses) ==
  { i \in 1..Len(bookings) :
      /\ bookings[i].car = carId
      /\ bookings[i].status \in statuses
      /\ Overlap(bookings[i].startDate, bookings[i].endDate, s, e) }

Ids(bs) == { bs[i].id : i \in 1..Len(bs) }

BlockingFor(kind) ==
  IF kind = "guest" THEN {"pending", "confirmed", "active"}
  ELSE {"confirmed", "active"}

Bookable(req) ==
  /\ ValidRange(req)
  /\ req.car \in DOMAIN cars
  /\ cars[req.car].isAvailable

\* the pairs of distinct overlapping confirmed-or-active reservations of one vehicle
DoubleBooked(bs) ==
  { <<i, j>> \in (1..Len(bs)) \X (1..Len(bs)) :
      /\ i < j
      /\ bs[i].car = bs[j].car
      /\ bs[i].status \in {"confirmed", "active"}
      /\ bs[j].status \in {"confirmed", "active"}
      /\ Overlap(bs[i].startDate, bs[i].endDate, bs[j].startDate, bs[j].endDate) }

\* ------------------------------------------------------------------ claims

\* C2 as stated: in every reachable state no vehicle has two distinct
\* reservations, both confirmed or active, whose date ranges overlap.
C2_NoDoubleBooking == DoubleBooked(bookings) = {}

\* C2 as amended: a createReservation step stores one pending reservation,
\* leaves the others as they are, and the stored one overlaps no reservation
\* of its vehicle that is confirmed or active at that moment; so no
\* createReservation adds a pair of overlapping confirmed-or-active
\* reservations (only setStatus does).
C2_CreateAvoidsBlocking ==
  [][ Len(bookings') > Len(bookings) =>
        LET new == bookings'[Len(bookings')]
        IN /\ Len(bookings') = Len(bookings) + 1
           /\ SubSeq(bookings', 1, Len(bookings)) = bookings
           /\ new.status = "pending"
           /\ \A i \in 1..Len(bookings) :
                ~ ( /\ bookings[i].car = new.car
                    /\ bookings[i].status \in {"confirmed", "active"}
                    /\ Overlap(bookings[i].startDate, bookings[i].endDate,
                               new.startDate, new.endDate) )
           /\ DoubleBooked(bookings') = DoubleBooked(bookings) ]_vars

\* a confirmed or active reservation, and a later one of the same vehicle
\* beside it that does not overlap it
C2_Witness ==
  \E i, j \in 1..Len(bookings) :
    /\ i < j
    /\ bookings[i].car = bookings[j].car
    /\ bookings[i].status \in {"confirmed", "active"}
    /\ bookings[j].status = "pending"
    /\ ~Overlap(bookings[i].startDate, bookings[i].endDate,
                bookings[j].startDate, bookings[j].endDate)

\* the C3 scenarios from the current state: a first call of kind sc[1] for a
\* bookable request sc[3] that no pending, confirmed or active reservation
\* overlaps, then a second call of kind sc[2] for the same vehicle and dates
C3_Scenarios ==
  { <<k1, k2, req>> \in Kinds \X Kinds \X (CreateRequests \cup GuestRequests) :
      /\ req \in RequestsOf(k1)
      /\ Bookable(req)
      /\ OverlappingIds(req.car, req.startDate, req.endDate,
                        {"pending", "confirmed", "active"}) = {} }

C3_SecondReq(k2, req) ==
  AsKind(k2, req, CHOOSE g \in SpecGuestInfos : TRUE)

C3_FirstStoresPending(first) ==
  /\ IsCreated(first.f.res)
  /\ Len(first.db.bookings) = Len(bookings) + 1
  /\ first.db.bookings[Len(bookings) + 1].status = "pending"

\* C3 as stated: the first call succeeds and stores a pending reservation, the
\* second returns Conflict and stores nothing, whatever the kinds of the two.
C3_SecondAlwaysConflicts ==
  \A sc \in C3_Scenarios :
    LET first == Serve(sc[1], sc[3])
        second == RunHandler(NewFrame(sc[2], C3_SecondReq(sc[2], sc[3])), first.db)
    IN /\ C3_FirstStoresPending(first)
       /\ IsConflict(second.f.res)
       /\ second.db = first.db

\* C3 as amended: the first call succeeds and stores a pending reservation; a
\* second call that is a guest request returns Conflict and stores nothing,
\* and a second call that is authenticated succeeds and stores a second
\* pending reservation (a pending reservation blocks guest requests only).
C3_SecondGuestConflicts ==
  \A sc \in C3_Scenarios :
    LET first == Serve(sc[1], sc[3])
        second == RunHandler(NewFrame(sc[2], C3_SecondReq(sc[2], sc[3])), first.db)
    IN /\ C3_FirstStoresPending(first)
       /\ sc[2] = "guest" =>
            /\ IsConflict(second.f.res)
            /\ second.db = first.db
       /\ sc[2] = "auth" =>
            /\ IsCreated(second.f.res)
            /\ Len(second.db.bookings) = Len(bookings) + 2
            /\ second.db.bookings[Len(bookings) + 2].status = "pending"
            /\ SubSeq(second.db.bookings, 1, Len(bookings) + 1) = first.db.bookings

\* the first call has stored its pending reservation and the same request,
\* asked again by a guest, is answered Conflict
C3_Witness ==
  \E i \in 1..Len(bookings) : \E req \in GuestRequests :
    /\ bookings[i].status = "pending"
    /\ Bookable(req)
    /\ req.car = bookings[i].car
    /\ req.startDate = bookings[i].startDate
    /\ req.endDate = bookings[i].endDate
    /\ OverlappingIds(req.car, req.startDate, req.endDate,
                      {"pending", "confirmed", "active"}) = {i}
    /\ IsConflict(Serve("guest", req).f.res)

\* C4: each of the three conflict queries returns exactly the reservations
\* of the vehicle in its blocking statuses with s1 <= e2 and e1 >= s2; a
\* stored range that touches the candidate at a boundary is returned, one
\* that shares no date with it never is.
C4_OverlapTest ==
  \A carId \in RequestCarIds : \A r \in DateRanges :
    /\ Ids(ConflictingBookingsAuth(bookings, carId, r[1], r[2]))
         = OverlappingIds(carId, r[1], r[2], {"confirmed", "active"})
    /\ Ids(ConflictingBookingsGuest(bookings, carId, r[1], r[2]))
         = OverlappingIds(carId, r[1], r[2], {"pending", "confirmed", "active"})
    /\ Ids(ConflictingBookingsAvailability(bookings, carId, r[1], r[2]))
         = OverlappingIds(carId, r[1], r[2], {"confirmed", "active"})
    /\ \A i \in 1..Len(bookings) :
         LET b == bookings[i]
             hit == /\ i \in Ids(ConflictingBookingsAuth(bookings, carId, r[1], r[2]))
                    /\ i \in Ids(ConflictingBookingsGuest(bookings, carId, r[1], r[2]))
                    /\ i \in Ids(ConflictingBookingsAvailability(bookings, carId, r[1], r[2]))
             miss == /\ i \notin Ids(ConflictingBookingsAuth(bookings, carId, r[1], r[2]))
                     /\ i \notin Ids(ConflictingBookingsGuest(bookings, carId, r[1], r[2]))
                     /\ i \notin Ids(ConflictingBookingsAvailability(bookings, carId, r[1], r[2]))
         IN /\ ( /\ b.car = carId
                 /\ b.status \in {"confirmed", "active"}
                 /\ r[1] <= r[2]
                 /\ (b.endDate = r[1] \/ b.startDate = r[2]) ) => hit
            /\ (b.endDate < r[1] \/ r[2] < b.startDate) => miss

\* a confirmed reservation, a candidate range that starts on its end date and
\* is reported by the availability check, and one past its end that is not
C4_Witness ==
  \E i \in 1..Len(bookings) : \E e \in Dates :
    LET b == bookings[i]
        touching == AvailabilityHandler(CurrentDb, b.car, b.endDate, e)
        apart == AvailabilityHandler(CurrentDb, b.car, b.endDate + 1, e)
    IN /\ b.status = "confirmed"
       /\ b.endDate + 1 < e
       /\ Len(bookings) = 1
       /\ Len(touching.conflictingDates) = 1
       /\ Len(apart.conflictingDates) = 0

\* C5: a bookable request is answered Conflict by the authenticated route
\* exactly when a confirmed or active reservation of the vehicle overlaps it,
\* and by the guest route exactly when a pending, confirmed or active one
\* does; otherwise the reservation is created.
C5_BlockingSets ==
  \A kind \in Kinds : \A req \in RequestsOf(kind) :
    Bookable(req) =>
      LET o == Serve(kind, req)
          blocked == OverlappingIds(req.car, req.startDate, req.endDate,
                                    BlockingFor(kind)) # {}
      IN /\ IsConflict(o.f.res) <=> blocked
         /\ IsCreated(o.f.res) <=> ~blocked

\* an overlapping pending reservation: the authenticated route books over
\* it, the guest route answers Conflict
C5_Witness ==
  \E i \in 1..Len(bookings) : \E req \in CreateRequests :
    /\ bookings[i].status = "pending"
    /\ Bookable(req)
    /\ OverlappingIds(req.car, req.startDate, req.endDate,
                      {"pending", "confirmed", "active"}) = {i}
    /\ IsCreated(Serve("auth", req).f.res)
    /\ IsConflict(Serve("guest", C3_SecondReq("guest", req)).f.res)

\* C6: when every reservation of a vehicle that overlaps the range is
\* cancelled or completed, the availability check of an available vehicle
\* answers available with no conflicts, and both routes create a
\* reservation for a bookable request of that range.
C6_CancelledNeverBlocks ==
  \A carId \in CarIds : \A r \in DateRanges :
    OverlappingIds(carId, r[1], r[2], {"pending", "confirmed", "active"}) = {} =>
      /\ LET a == AvailabilityHandler(CurrentDb, carId, r[1], r[2])
         IN /\ a.status = 200
            /\ a.conflictingDates = <<>>
            /\ cars[carId].isAvailable => a.available
      /\ \A kind \in Kinds : \A req \in RequestsOf(kind) :
           (req.car = carId /\ req.startDate = r[1] /\ req.endDate = r[2]
              /\ Bookable(req)) =>
             LET o == Serve(kind, req)
             IN /\ IsCreated(o.f.res)
                /\ Len(o.db.bookings) = Len(bookings) + 1

\* a cancelled or completed reservation, and a guest reservation of the same
\* vehicle made over it
C6_Witness ==
  \E i, j \in 1..Len(bookings) :
    /\ i < j
    /\ bookings[i].car = bookings[j].car
    /\ bookings[i].status \in {"cancelled", "completed"}
    /\ bookings[j].isGuestBooking
    /\ bookings[j].status = "pending"
    /\ Overlap(bookings[i].startDate, bookings[i].endDate,
               bookings[j].startDate, bookings[j].endDate)
    /\ cars[bookings[i].car].isAvailable
    /\ AvailabilityHandler(CurrentDb, bookings[i].car, bookings[i].startDate,
                           bookings[i].endDate).available

\* C7: a request whose startDate is not after the request time, or whose
\* endDate is not after its startDate, is answered InvalidDateRange by both
\* routes and leaves the stores as they were.
C7_InvalidDateRange ==
  \A kind \in Kinds : \A req \in RequestsOf(kind) :
    (req.startDate <= req.now \/ req.endDate <= req.startDate) =>
      LET o == Serve(kind, req)
      IN /\ IsInvalidDateRange(o.f.res)
         /\ o.db = CurrentDb

\* with reservations in the store, a request that starts at the request
\* time and one that ends when it starts are both turned down
C7_Witness ==
  /\ bookings # <<>>
  /\ \E req \in CreateRequests :
       /\ req.startDate = req.now
       /\ req.car \in DOMAIN cars
       /\ Serve("auth", req).f.res = Json(400, "Start date must be in the future")
  /\ \E req \in GuestRequests :
       /\ req.startDate > req.now
       /\ req.endDate = req.startDate
       /\ Serve("guest", req).f.res = Json(400, "End date must be after start date")

\* C8: with a valid date range, a vehicle id that does not exist is answered
\* NotFound and a vehicle flagged unavailable is answered Unavailable,
\* whatever reservations it has; no reservation and no guest is created.
C8_NotFoundUnavailable ==
  \A kind \in Kinds : \A req \in RequestsOf(kind) :
    ValidRange(req) =>
      LET o == Serve(kind, req)
      IN /\ req.car \notin DOMAIN cars =>
              IsNotFound(o.f.res) /\ o.db = CurrentDb
         /\ (req.car \in DOMAIN cars /\ ~cars[req.car].isAvailable) =>
              IsUnavailable(o.f.res) /\ o.db = CurrentDb

\* a vehicle with a cancelled reservation is flagged unavailable and a guest
\* request that nothing else would stop is answered Unavailable
C8_Witness ==
  \E i \in 1..Len(bookings) : \E req \in GuestRequests :
    /\ bookings[i].car = req.car
    /\ bookings[i].status = "cancelled"
    /\ Len(bookings) = 1
    /\ ValidRange(req)
    /\ ~cars[req.car].isAvailable
    /\ IsUnavailable(Serve("guest", req).f.res)

\* the least n with n days >= the length of the range
C9_DaysOf(b) ==
  CHOOSE n \in 0..(MaxDate + DayMs) :
    /\ n * DayMs >= b.endDate - b.startDate
    /\ \A m \in 0..(MaxDate + DayMs) : m * DayMs >= b.endDate - b.startDate => n <= m

\* C9: every stored reservation has totalDays = ceil((endDate - startDate) /
\* one day) >= 1 and totalAmount = totalDays * the vehicle's pricePerDay >= 0;
\* three days at 50 a day are totalDays 3 and totalAmount 150.
C9_Totals ==
  /\ \A i \in 1..Len(bookings) :
       LET b == bookings[i]
       IN /\ b.totalDays = C9_DaysOf(b)
          /\ b.totalDays >= 1
          /\ b.totalAmount = b.totalDays * cars[b.car].pricePerDay
          /\ b.totalAmount >= 0
  /\ \A kind \in Kinds :
       LET req == [car |-> "c1", startDate |-> 1, endDate |-> 1 + 3 * DayMs,
                   now |-> 0, guestInfo |-> CHOOSE g \in SpecGuestInfos : TRUE]
           o == RunHandler(NewFrame(kind, AsKind(kind, req, req.guestInfo)),
                           Db([cars EXCEPT !["c1"].isAvailable = TRUE], <<>>, users))
       IN /\ IsCreated(o.f.res)
          /\ o.db.bookings[1].totalDays = 3
          /\ o.db.bookings[1].totalAmount = 150

\* a stored reservation of a day and a half, charged two days
C9_Witness ==
  \E i \in 1..Len(bookings) :
    /\ bookings[i].endDate - bookings[i].startDate = DayMs + 1
    /\ bookings[i].totalDays = 2
    /\ bookings[i].totalAmount = 2 * cars[bookings[i].car].pricePerDay

\* the guest identities
GuestUserIds == { i \in 1..Len(users) : users[i].isGuest }

GuestBookingIds == { k \in 1..Len(bookings) : bookings[k].isGuestBooking }

\* the latest guest reservation made with an email
LatestWith(email) ==
  CHOOSE k \in GuestBookingIds :
    /\ bookings[k].guestInfo.email = email
    /\ \A m \in GuestBookingIds : bookings[m].guestInfo.email = email => m <= k

\* C10: after guest bookings made one after the other there is exactly one
\* guest identity per email used; every guest reservation has the identity of
\* its email as renter, and the identity carries the name and phone of the
\* latest booking made with that email.
C10_OneGuestPerEmail ==
  /\ \A i, j \in GuestUserIds : users[i].email = users[j].email => i = j
  /\ { users[i].email : i \in GuestUserIds }
       = { bookings[k].guestInfo.email : k \in GuestBookingIds }
  /\ \A k \in GuestBookingIds :
       /\ bookings[k].user \in GuestUserIds
       /\ users[bookings[k].user].email = bookings[k].guestInfo.email
  /\ \A i \in GuestUserIds :
       LET k == LatestWith(users[i].email)
       IN /\ users[i].name = bookings[k].guestInfo.name
          /\ users[i].phone = bookings[k].guestInfo.phone

\* two guest bookings with one email and different names and phones: one
\* identity, the renter of both, with the name and phone of the second
C10_Witness ==
  /\ Len(bookings) = 2
  /\ bookings[1].isGuestBooking /\ bookings[2].isGuestBooking
  /\ bookings[1].guestInfo.email = bookings[2].guestInfo.email
  /\ bookings[1].guestInfo.name # bookings[2].guestInfo.name
  /\ bookings[1].guestInfo.phone # bookings[2].guestInfo.phone
  /\ Cardinality(GuestUserIds) = 1
  /\ bookings[1].user = bookings[2].user
  /\ users[bookings[2].user].name = bookings[2].guestInfo.name
  /\ users[bookings[2].user].phone = bookings[2].guestInfo.phone

\* C1: of two guest requests served at once for the same vehicle and
\* overlapping date ranges, at most one persists a reservation.
C1_AtMostOnePersists ==
  \A p, q \in Procs :
    ( /\ p # q
      /\ frames[p].kind = "guest" /\ frames[q].kind = "guest"
      /\ frames[p].req.car = frames[q].req.car
      /\ Overlap(frames[p].req.startDate, frames[p].req.endDate,
                 frames[q].req.startDate, frames[q].req.endDate) )
    => ~ (frames[p].booking # <<>> /\ frames[q].booking # <<>>)

\* C11: setStatus on an id that no reservation has is answered NotFound and
\* changes nothing; on a stored reservation it succeeds for each of the five
\* status values, whatever the status the reservation has, and the stored
\* (and returned) status is then the requested one.
C11_SetStatus ==
  \A id \in BookingIdInputs : \A status \in BookingStatuses :
    LET o == UpdateStatusHandler(CurrentDb, id, status)
    IN IF id \in 1..Len(bookings)
       THEN /\ o.res.status = 200
            /\ o.res.data.status = status
            /\ o.db.bookings[id].status = status
       ELSE /\ IsNotFound(o.res)
            /\ o.db = CurrentDb

\* a reservation that setStatus has cancelled and one it has completed: the
\* first can be made active and the second pending again, and the id after
\* the last one is answered NotFound
C11_Witness ==
  \E i, j \in 1..Len(bookings) :
    /\ bookings[i].status = "cancelled"
    /\ bookings[j].status = "completed"
    /\ UpdateStatusHandler(CurrentDb, i, "active").db.bookings[i].status = "active"
    /\ UpdateStatusHandler(CurrentDb, j, "pending").db.bookings[j].status = "pending"
    /\ IsNotFound(UpdateStatusHandler(CurrentDb, Len(bookings) + 1, "confirmed").res)

\* the {startDate, endDate} of the reservations `ids`, in the order stored
C13_Dates(ids) ==
  [ k \in 1..Cardinality(ids) |->
      LET i == CHOOSE i \in ids : Cardinality({ j \in ids : j <= i }) = k
      IN [startDate |-> bookings[i].startDate, endDate |-> bookings[i].endDate] ]

\* C13: the availability check of an existing vehicle answers available
\* exactly when no confirmed or active reservation of the vehicle overlaps
\* the range and the vehicle's flag is true; its conflict list holds exactly
\* the {startDate, endDate} of each such reservation, so it is empty when
\* only the flag stands in the way.
C13_AvailabilityResult ==
  \A carId \in CarIds : \A r \in DateRanges :
    LET a == AvailabilityHandler(CurrentDb, carId, r[1], r[2])
        ids == OverlappingIds(carId, r[1], r[2], {"confirmed", "active"})
    IN /\ a.status = 200
       /\ a.available <=> (ids = {} /\ cars[carId].isAvailable)
       /\ a.conflictingDates = C13_Dates(ids)
       /\ (~a.available /\ cars[carId].isAvailable) => a.conflictingDates # <<>>
       /\ (~a.available /\ ids = {}) => a.conflictingDates = <<>>

\* one vehicle unavailable only because of a confirmed reservation, with
\* that reservation's dates as the conflict list, and another unavailable
\* only because of its flag, with an empty list
C13_Witness ==
  \E i \in 1..Len(bookings) : \E carId \in CarIds :
    LET b == bookings[i]
        a == AvailabilityHandler(CurrentDb, b.car, b.startDate, b.endDate)
        f == AvailabilityHandler(CurrentDb, carId, b.startDate, b.endDate)
    IN /\ b.status = "confirmed"
       /\ cars[b.car].isAvailable
       /\ ~a.available
       /\ a.conflictingDates = <<[startDate |-> b.startDate, endDate |-> b.endDate]>>
       /\ carId # b.car
       /\ ~cars[carId].isAvailable
       /\ ~f.available
       /\ f.conflictingDates = <<>>

\* C12: a createReservation that ends in an error, a rejected store call
\* at any step included, leaves the stores without any record written by
\* it; one that succeeds adds exactly one complete reservation.
C12_AllOrNothing ==
  [][ LET f == frames'[1]
      IN /\ ~IsCreated(f.res) => (bookings' = bookings /\ users' = users)
         /\ IsCreated(f.res) =>
              /\ Len(bookings') = Len(bookings) + 1
              /\ SubSeq(bookings', 1, Len(bookings)) = bookings
              /\ LET new == bookings'[Len(bookings')]
                 IN /\ new.car = f.req.car
                    /\ new.startDate = f.req.startDate
                    /\ new.endDate = f.req.endDate
                    /\ new.totalDays >= 1
                    /\ new.status = "pending"
                    /\ new.user \in 1..Len(users') ]_vars

\* C14: every reservation that createReservation stores, authenticated or
\* guest, has status pending and payment status pending, and the guest flag
\* exactly when the request is a guest request; the status of a stored
\* reservation changes only in a step of setStatus, which changes the status
\* of one reservation and nothing else.
C14_PendingUntilSetStatus ==
  /\ [](\A kind \in Kinds : \A req \in RequestsOf(kind) :
          LET o == Serve(kind, req)
          IN IsCreated(o.f.res) =>
               /\ Len(o.db.bookings) = Len(bookings) + 1
               /\ LET new == o.db.bookings[Len(o.db.bookings)]
                  IN /\ new.status = "pending"
                     /\ new.paymentStatus = "pending"
                     /\ new.isGuestBooking <=> (kind = "guest"))
  /\ [][ (\E i \in 1..Len(bookings) : bookings'[i].status # bookings[i].status) =>
           /\ \E id \in 1..Len(bookings) : \E status \in BookingStatuses :
                bookings' = [bookings EXCEPT ![id].status = status]
           /\ UNCHANGED <<cars, users>> ]_vars

\* a reservation that setStatus has confirmed, and a guest reservation
\* stored as pending beside it
C14_Witness ==
  /\ Len(bookings) = 2
  /\ ~bookings[1].isGuestBooking
  /\ bookings[1].status = "confirmed"
  /\ bookings[1].paymentStatus = "pending"
  /\ bookings[2].isGuestBooking
  /\ bookings[2].status = "pending"
  /\ bookings[2].paymentStatus = "pending"

\* C15: the availability check leaves every vehicle, reservation and guest
\* identity as it was, and the same check made again on the database it
\* leaves gives the same available flag and the same conflicts.
C15_NoSideEffects ==
  \A carId \in RequestCarIds : \A r \in DateRanges :
    LET o == AvailabilityRoute(CurrentDb, carId, r[1], r[2])
        again == AvailabilityRoute(o.db, carId, r[1], r[2])
    IN /\ o.db = CurrentDb
       /\ again.res = o.res
       /\ again.db = CurrentDb

\* an available vehicle with a confirmed reservation and a guest identity in
\* the stores: the check of an overlapping range reports the conflict
C15_Witness ==
  \E i \in 1..Len(bookings) :
    LET b == bookings[i]
        o == AvailabilityRoute(CurrentDb, b.car, b.startDate, b.endDate)
    IN /\ b.status = "confirmed"
       /\ cars[b.car].isAvailable
       /\ GuestUserIds # {}
       /\ ~o.res.available
       /\ Len(o.res.conflictingDates) = 1

\* C16: every stored reservation has its endDate strictly after its
\* startDate, whatever createReservation and setStatus operations came before.
C16_EndAfterStart ==
  \A i \in 1..Len(bookings) : bookings[i].startDate < bookings[i].endDate

\* two stored reservations, one of them of half a day, one with its status
\* set by setStatus
C16_Witness ==
  /\ Len(bookings) = MaxBookings
  /\ \E i \in 1..Len(bookings) : bookings[i].endDate = bookings[i].startDate + 1
  /\ \E i \in 1..Len(bookings) : bookings[i].status = "active"

\* the first check of createReservation that a request fails, in the order
\* date range, vehicle existence, availability flag, conflict query
C19_FirstFailure(kind, req) ==
  IF ~ValidRange(req) THEN "InvalidDateRange"
  ELSE IF req.car \notin DOMAIN cars THEN "NotFound"
  ELSE IF ~cars[req.car].isAvailable THEN "Unavailable"
  ELSE IF OverlappingIds(req.car, req.startDate, req.endDate, BlockingFor(kind)) # {}
  THEN "Conflict"
  ELSE "Created"

C19_Outcome(r) ==
  IF IsCreated(r) THEN "Created"
  ELSE IF IsInvalidDateRange(r) THEN "InvalidDateRange"
  ELSE IF IsNotFound(r) THEN "NotFound"
  ELSE IF IsUnavailable(r) THEN "Unavailable"
  ELSE IF IsConflict(r) THEN "Conflict"
  ELSE "Other"

\* C19: createReservation reports the first failure in the order date
\* range, vehicle existence, availability flag, conflict query (so an invalid
\* range on a missing vehicle is InvalidDateRange, and an unavailable vehicle
\* with a blocking overlapping reservation is Unavailable); a request that
\* fails one of them leaves the stores, the guest identities included, as
\* they were.
C19_CheckOrder ==
  \A kind \in Kinds : \A req \in RequestsOf(kind) :
    LET o == Serve(kind, req)
    IN /\ C19_Outcome(o.f.res) = C19_FirstFailure(kind, req)
       /\ C19_FirstFailure(kind, req) # "Created" => o.db = CurrentDb
       /\ C19_FirstFailure(kind, req) # "Created" => o.f.guestUser = 0

\* a vehicle flagged unavailable with a confirmed reservation: a guest
\* request over that reservation is answered Unavailable, and a request with
\* an invalid range for a vehicle that does not exist InvalidDateRange
C19_Witness ==
  \E i \in 1..Len(bookings) : \E req, bad \in GuestRequests :
    /\ bookings[i].status = "confirmed"
    /\ req.car = bookings[i].car
    /\ ~cars[req.car].isAvailable
    /\ ValidRange(req)
    /\ i \in OverlappingIds(req.car, req.startDate, req.endDate, BlockingFor("guest"))
    /\ IsUnavailable(Serve("guest", req).f.res)
    /\ ~ValidRange(bad)
    /\ bad.car \notin DOMAIN cars
    /\ IsInvalidDateRange(Serve("guest", bad).f.res)

\* C20: for an existing vehicle and a range with now < startDate < endDate,
\* an authenticated createReservation made right after the availability
\* check succeeds when the check says available and fails with Unavailable
\* or Conflict when it says not available; a guest createReservation
\* disagrees with the check only when a pending reservation overlaps the
\* range, and then it is answered Conflict.
C20_AvailabilityAgrees ==
  \A req \in CreateRequests :
    (req.car \in DOMAIN cars /\ ValidRange(req)) =>
      LET a == AvailabilityRoute(CurrentDb, req.car, req.startDate, req.endDate)
          auth == RunHandler(NewFrame("auth", req), a.db).f.res
          guest == RunHandler(NewFrame("guest", C3_SecondReq("guest", req)), a.db).f.res
          pending == OverlappingIds(req.car, req.startDate, req.endDate, {"pending"})
      IN /\ a.res.available => IsCreated(auth)
         /\ ~a.res.available => (IsUnavailable(auth) \/ IsConflict(auth))
         /\ ~a.res.available => (IsUnavailable(guest) \/ IsConflict(guest))
         /\ (a.res.available /\ pending = {}) => IsCreated(guest)
         /\ (a.res.available /\ pending # {}) => IsConflict(guest)

\* a pending reservation only: the check says available, the authenticated
\* request for its range succeeds and the guest request is answered Conflict
C20_Witness ==
  \E i \in 1..Len(bookings) : \E req \in CreateRequests :
    /\ bookings[i].status = "pending"
    /\ req.car = bookings[i].car
    /\ ValidRange(req)
    /\ Overlap(bookings[i].startDate, bookings[i].endDate, req.startDate, req.endDate)
    /\ AvailabilityRoute(CurrentDb, req.car, req.startDate, req.endDate).res.available
    /\ IsCreated(Serve("auth", req).f.res)
    /\ IsConflict(Serve("guest", C3_SecondReq("guest", req)).f.res)

\* C18: when two guest requests with the same email, for different vehicles
\* or for date ranges that do not overlap, are served at once, then once
\* both are answered both have stored their reservation, one guest identity
\* has that email and it is the renter of both reservations.
C18_ConcurrentGuestDedup ==
  \A p, q \in Procs :
    ( /\ p # q
      /\ frames[p].kind = "guest" /\ frames[q].kind = "guest"
      /\ frames[p].req.guestInfo.email = frames[q].req.guestInfo.email
      /\ \/ frames[p].req.car # frames[q].req.car
         \/ ~Overlap(frames[p].req.startDate, frames[p].req.endDate,
                     frames[q].req.startDate, frames[q].req.endDate)
      /\ frames[p].pc = "done" /\ frames[q].pc = "done" )
    => /\ IsCreated(frames[p].res) /\ IsCreated(frames[q].res)
       /\ Cardinality({ i \in GuestUserIds :
                          users[i].email = frames[p].req.guestInfo.email }) = 1
       /\ frames[p].booking[1].user = frames[q].booking[1].user

\* C17: setStatus changes the status field of the reservation it addresses
\* and nothing else: that reservation's vehicle, renter, dates, totalDays,
\* totalAmount (also when the vehicle's price is no longer the one charged),
\* payment status and guest flag, every other reservation, every vehicle and
\* every guest identity stay as they were.
C17_SetStatusFrame ==
  \A id \in BookingIdInputs : \A status \in StatusInputs :
    LET o == UpdateStatusHandler(CurrentDb, id, status)
    IN /\ o.db.cars = cars
       /\ o.db.users = users
       /\ Len(o.db.bookings) = Len(bookings)
       /\ \A i \in 1..Len(bookings) :
            /\ i # id => o.db.bookings[i] = bookings[i]
            /\ [o.db.bookings[i] EXCEPT !.status = bookings[i].status] = bookings[i]

\* a reservation whose status setStatus has set, charged at a price the
\* vehicle no longer has, beside another reservation: completing it leaves
\* its amount and the other reservation alone
C17_Witness ==
  \E i, j \in 1..Len(bookings) :
    LET b == bookings[i]
        o == UpdateStatusHandler(CurrentDb, i, "completed")
    IN /\ i # j
       /\ b.status = "active"
       /\ b.totalAmount # b.totalDays * cars[b.car].pricePerDay
       /\ o.res.status = 200
       /\ o.db.bookings[i].status = "completed"
       /\ o.db.bookings[i].totalAmount = b.totalAmount
       /\ o.db.bookings[j] = bookings[j]

\* C21: every stored reservation has one of the five statuses and one of
\* the four payment statuses; a setStatus request with any other status
\* value is answered with the validation error and leaves the stores as they
\* were.
C21_StatusEnums ==
  /\ \A i \in 1..Len(bookings) :
       /\ bookings[i].status \in {"pending", "confirmed", "active", "completed", "cancelled"}
       /\ bookings[i].paymentStatus \in {"pending", "paid", "failed", "refunded"}
  /\ \A id \in BookingIdInputs : \A status \in StatusInputs \ BookingStatuses :
       LET o == UpdateStatusHandler(CurrentDb, id, status)
       IN /\ o.res = Json(400, "Validation failed")
          /\ o.db = CurrentDb

\* a reservation that setStatus has made active: a request to set it to a
\* status outside the five is turned down and the reservation stays active
C21_Witness ==
  \E i \in 1..Len(bookings) : \E status \in StatusInputs \ BookingStatuses :
    LET o == UpdateStatusHandler(CurrentDb, i, status)
    IN /\ bookings[i].status = "active"
       /\ o.res.status = 400
       /\ o.db.bookings[i].status = "active"

\* C22: the pre-validate hook signals exactly one outcome: for startDate >=
\* endDate it calls next once, with the error 'End date must be after start
\* date', and leaves the document alone; otherwise it sets totalDays to the
\* ceiling of the range in days, whatever totalDays was supplied, and calls
\* next once without an error.
C22_OneOutcome ==
  \A p \in Procs :
    frames[p].pc = "validated" =>
      LET given == frames[p].given
      IN IF given.startDate >= given.endDate
         THEN /\ frames[p].calls = <<"End date must be after start date">>
              /\ frames[p].doc = given
         ELSE /\ frames[p].calls = <<"">>
              /\ frames[p].doc = [given EXCEPT !.totalDays = C9_DaysOf(given)]

====
